---- MODULE Spec2Model ----
(***************************************************************************)
(* KashiPathEngine (src/engine.py): a multi-modal transit graph whose      *)
(* connection weights are recomputed from governance signals               *)
(* (update_governance_parameters) and searched for a cheapest route        *)
(* (solve_path).                                                           *)
(*                                                                         *)
(* Units.  Python floats are modelled by exact fixed-point integers:       *)
(*   costs      in 1/Unit of a minute (Unit = 2000 absorbs the             *)
(*              denominators of 1.4 = 7/5, density/2.0 = tenths/20 and     *)
(*              1.05 = 21/20, 1.10 = 11/10, so every product is exact),    *)
(*   river level in hundredths of a metre, crowd density in tenths.        *)
(*                                                                         *)
(* Library.  nx.shortest_path / nx.shortest_path_length are modelled as    *)
(* networkx 3.x implements them (bidirectional_dijkstra and                *)
(* dijkstra_path_length).  On a MultiDiGraph networkx hands a callable     *)
(* weight the dictionary {edge key: attribute dict} of ALL parallel edges  *)
(* between u and v, not one edge's attribute dict.                         *)
(***************************************************************************)
EXTENDS Integers, Sequences, FiniteSets, TLC

VARIABLES G, signals, called

vars == <<G, signals, called>>

-----------------------------------------------------------------------------
(* Program constants *)

Unit == 2000

CWC_DANGER_LEVEL == 7126
IRI_POOR_THRESHOLD == 170
KICCC_CROWD_LIMIT == 40
DEFAULT_IRI == 80
DEFAULT_DENSITY == 5
AQI_THRESHOLD == 200
FLOOD_PENALTY == 2000
MELA_DELAY == 60

-----------------------------------------------------------------------------
(* Bounds of the explored inputs *)

\* the highest river level fed to the engine, in hundredths of a metre
MaxRiver == 7150
\* the highest air-quality index fed to the engine
MaxAqi == 245
\* the highest road roughness (IRI) fed to the engine
MaxIri == 195
\* the highest ordinary crowd density fed to the engine, in tenths
MaxDensity == 52
\* an extreme crowd density, in tenths (300.0 pedestrians/sqm)
ExtremeDensity == 3000

-----------------------------------------------------------------------------
(* Python helpers *)

\* dict.get(k, default)
Get(d, k, default) == IF k \in DOMAIN d THEN d[k] ELSE default

\* `sub in s` on strings
Contains(sub, s) ==
    \E i \in 1..(Len(s) - Len(sub) + 1) : SubSeq(s, i, i + Len(sub) - 1) = sub

\* str() of a float given in tenths: 52 -> "5.2"
FloatStr(tenths) == ToString(tenths \div 10) \o "." \o ToString(tenths % 10)

\* cost * (n/d); d divides cost wherever the policy uses it (see Units)
Times(cost, n, d) == (cost \div d) * n

EmptyDict == [k \in {} |-> 0]

-----------------------------------------------------------------------------
(* initialize_city_network *)

nodes ==
    << <<"LBS_Airport", "Transit">>, <<"Cantt_Station", "Transit">>,
       <<"Godowlia_Stand", "Rickshaw_Hub">>, <<"Lanka_Stand", "Rickshaw_Hub">>,
       <<"BHU_Trauma_Centre", "Hospital">>, <<"SSPG_Kabir_Chaura", "Hospital">>,
       <<"Maidagin_Chowk", "Junction">>, <<"Dashashwamedh_Ghat", "Riverfront">> >>

edges ==
    << <<"LBS_Airport", "Cantt_Station", 42, "E-Bus">>,
       <<"Cantt_Station", "Maidagin_Chowk", 18, "E-Bus">>,
       <<"Cantt_Station", "Lanka_Stand", 28, "E-Bus">>,
       <<"Maidagin_Chowk", "Godowlia_Stand", 12, "E-Rickshaw">>,
       <<"Godowlia_Stand", "Dashashwamedh_Ghat", 8, "E-Rickshaw">>,
       <<"Godowlia_Stand", "Lanka_Stand", 18, "E-Rickshaw">>,
       <<"SSPG_Kabir_Chaura", "Cantt_Station", 10, "Ambulance">>,
       <<"Cantt_Station", "BHU_Trauma_Centre", 22, "Ambulance">> >>

\* the hub names of the seed graph
HubNames == {nodes[i][1] : i \in 1..Len(nodes)}

\* the key MultiDiGraph.add_edge gives the i-th seed edge: the number of
\* earlier edges between the same pair, written as a string so that it can
\* share a dictionary domain with attribute names
NewKey(i) ==
    ToString(Cardinality({j \in 1..(i - 1) :
        edges[j][1] = edges[i][1] /\ edges[j][2] = edges[i][2]}))

\* add_edge(u, v, base_time=t, weight=t, mode=m, status="Clear")
add_edge(i) ==
    [u |-> edges[i][1], v |-> edges[i][2], key |-> NewKey(i),
     data |-> [base_time |-> edges[i][3] * Unit, weight |-> edges[i][3] * Unit,
               mode |-> edges[i][4], status |-> "Clear"]]

\* the graph after construction: hubs with their node_type, edges in
\* insertion order
initialize_city_network ==
    [node |-> [n \in HubNames |->
                 [node_type |-> nodes[CHOOSE i \in 1..Len(nodes) :
                                            nodes[i][1] = n][2]]],
     edge |-> [i \in 1..Len(edges) |-> add_edge(i)]]

\* `"Ghat" in v`, `"Godowlia" in v` and f"{u}-{v}" for the seed hubs
\* (tabulated once; the values come from Contains and \o)
HasGhat == [n \in HubNames |-> Contains("Ghat", n)]
HasGodowlia == [n \in HubNames |-> Contains("Godowlia", n)]
RoadKey == [u \in HubNames |-> [v \in HubNames |-> u \o "-" \o v]]

-----------------------------------------------------------------------------
(* update_governance_parameters: the per-edge rules, in source order.      *)
(* Each rule maps the loop body's locals [cost, segment_status].           *)

\* 1. road quality
RoadRule(loc, e, sig) ==
    LET iri_val == Get(sig.road_states, RoadKey[e.u][e.v], DEFAULT_IRI)
    IN  IF iri_val > IRI_POOR_THRESHOLD
        THEN [cost |-> Times(loc.cost, 7, 5),
              segment_status |-> "CAUTION_BROKEN_ROAD"]
        ELSE loc

\* 2. flood gate
FloodRule(loc, e, sig) ==
    IF sig.river_level >= CWC_DANGER_LEVEL /\ HasGhat[e.v]
    THEN [cost |-> loc.cost + FLOOD_PENALTY * Unit,
          segment_status |-> "BLOCKADE_FLOOD_ALERT"]
    ELSE loc

\* mutant: the crowd multiplier is applied without the density guard
CrowdRule_NoLimit(loc, e, sig) ==
    LET density == Get(sig.crowd_data, e.v, DEFAULT_DENSITY)
    IN  [cost |-> Times(loc.cost, density, 20),
         segment_status |-> "SURGE_ALERT_" \o FloatStr(density) \o "P/m2"]

\* 3. crowd pulse
CrowdRule(loc, e, sig) ==
    LET density == Get(sig.crowd_data, e.v, DEFAULT_DENSITY)
    IN  IF density > KICCC_CROWD_LIMIT
        THEN [cost |-> Times(loc.cost, density, 20),
              segment_status |-> "SURGE_ALERT_" \o FloatStr(density) \o "P/m2"]
        ELSE loc

\* 4. air quality
AqiRule(loc, e, sig) ==
    IF sig.aqi > AQI_THRESHOLD
    THEN [cost |-> IF e.data.mode = "E-Bus" THEN Times(loc.cost, 21, 20)
                                            ELSE Times(loc.cost, 11, 10),
          segment_status |-> IF loc.segment_status = "Clear"
                             THEN "MINOR_AQI_NUDGE" ELSE loc.segment_status]
    ELSE loc

\* 5. mela pedestrian zone
MelaRule(loc, e, sig) ==
    IF sig.mela_active /\ HasGodowlia[e.v] /\ e.data.mode # "Ambulance"
    THEN [cost |-> loc.cost + MELA_DELAY * Unit,
          segment_status |-> "PEDESTRIAN_ZONE_ACTIVE"]
    ELSE loc

\* mutant: the loop body starts from the stored weight
StartCost_FromWeight(e) == e.data.weight

\* the cost the loop body starts from
StartCost(e) == e.data.base_time

\* one iteration of the loop over G.edges(keys=True, data=True)
UpdateEdge(e, sig) ==
    LET l0 == [cost |-> StartCost(e), segment_status |-> "Clear"]
        l1 == RoadRule(l0, e, sig)
        l2 == FloodRule(l1, e, sig)
        l3 == CrowdRule(l2, e, sig)
        l4 == AqiRule(l3, e, sig)
        l5 == MelaRule(l4, e, sig)
    IN  [e EXCEPT !.data.weight = l5.cost, !.data.status = l5.segment_status]

\* the whole pass
UpdatedGraph(g, sig) ==
    [g EXCEPT !.edge = [i \in DOMAIN g.edge |-> UpdateEdge(g.edge[i], sig)]]

-----------------------------------------------------------------------------
(* Costs seen by the search.  weight_logic returns either a stored weight  *)
(* or the sentinel 1e9; a sum of such values is kept as                    *)
(* big * 1e9 + fine/Unit, which orders like the float sum because every    *)
(* stored weight is far below 1e9.                                         *)

Zero == [big |-> 0, fine |-> 0]
SENTINEL == [big |-> 1, fine |-> 0]
Plus(a, b) == [big |-> a.big + b.big, fine |-> a.fine + b.fine]
Less(a, b) == a.big < b.big \/ (a.big = b.big /\ a.fine < b.fine)

\* a call's result: exc = "" when it returned val
Ok(v) == [exc |-> "", val |-> v]
Raise(x) == [exc |-> x, val |-> Zero]

Range(s) == {s[i] : i \in DOMAIN s}

RECURSIVE Reverse(_)
Reverse(s) == IF s = <<>> THEN <<>> ELSE Append(Reverse(Tail(s)), Head(s))

RECURSIVE Distinct(_)
\* the distinct elements of s in order of first appearance
Distinct(s) ==
    IF s = <<>> THEN <<>>
    ELSE LET r == Distinct(SubSeq(s, 1, Len(s) - 1))
         IN  IF s[Len(s)] \in Range(r) THEN r ELSE Append(r, s[Len(s)])

-----------------------------------------------------------------------------
(* MultiDiGraph adjacency *)

\* G._succ[u][v] (= G._pred[v][u]): the dictionary edge key -> attribute
\* dictionary of the parallel edges from u to v
KeyDict(g, u, v) ==
    LET par == {i \in DOMAIN g.edge : g.edge[i].u = u /\ g.edge[i].v = v}
    IN  [k \in {g.edge[i].key : i \in par} |->
            g.edge[CHOOSE i \in par : g.edge[i].key = k].data]

\* mutant: the callable weight is handed one edge's attribute dictionary
WeightArg_EdgeData(g, u, v) == KeyDict(g, u, v)["0"]

\* what networkx passes a callable weight as its third argument: on a
\* MultiDiGraph the whole G._succ[u][v] dictionary, whose keys are edge keys
\* (so it has no 'mode' or 'weight' entry of its own)
WeightArg(g, u, v) == KeyDict(g, u, v)

\* G._succ[v].items() / G._pred[v].items(), in insertion order
Successors(g, v) ==
    LET out == SelectSeq(g.edge, LAMBDA e : e.u = v)
        ws == Distinct([i \in DOMAIN out |-> out[i].v])
    IN  [i \in DOMAIN ws |-> <<ws[i], WeightArg(g, v, ws[i])>>]

Predecessors(g, v) ==
    LET inc == SelectSeq(g.edge, LAMBDA e : e.v = v)
        ws == Distinct([i \in DOMAIN inc |-> inc[i].u])
    IN  [i \in DOMAIN ws |-> <<ws[i], WeightArg(g, ws[i], v)>>]

-----------------------------------------------------------------------------
(* solve_path *)

\* allowed = [vehicle_type]; Ambulance also gets "E-Bus"
Allowed(vehicle_type) ==
    IF vehicle_type = "Ambulance" THEN <<vehicle_type, "E-Bus">>
    ELSE <<vehicle_type>>

\* d['weight'] if d['mode'] in allowed else 1e9; a missing key raises
weight_logic(u, v, d, allowed) ==
    IF "mode" \notin DOMAIN d THEN Raise("KeyError")
    ELSE IF d["mode"] \in Range(allowed)
         THEN IF "weight" \notin DOMAIN d THEN Raise("KeyError")
              ELSE Ok([big |-> 0, fine |-> d["weight"]])
         ELSE Ok(SENTINEL)

\* heappop: the least (distance, counter, node) of a fringe
PopMin(F) ==
    CHOOSE x \in F : \A y \in F :
        x = y \/ Less(x[1], y[1]) \/ (x[1] = y[1] /\ x[2] < y[2])

-----------------------------------------------------------------------------
(* nx.bidirectional_dijkstra, which nx.shortest_path(G, s, t, weight=f)    *)
(* runs.  Index dir + 1 is the forward (dir = 0) or backward (dir = 1)     *)
(* side of dists, paths, fringe and seen.                                  *)

RECURSIVE BiRelax(_, _, _, _, _, _)
\* for w, d in neighs[dir][v].items(): ...
BiRelax(g, allowed, st, v, ns, i) ==
    IF i > Len(ns) THEN st
    ELSE
      LET w == ns[i][1]
          d == ns[i][2]
          side == st.dir + 1
          cost == IF st.dir = 0 THEN weight_logic(v, w, d, allowed)
                                ELSE weight_logic(w, v, d, allowed)
      IN
      IF cost.exc # "" THEN [st EXCEPT !.exc = cost.exc]
      ELSE
        LET vwLength == Plus(st.dists[side][v], cost.val) IN
        IF w \in DOMAIN st.dists[side]
        THEN IF Less(vwLength, st.dists[side][w])
             THEN [st EXCEPT !.exc = "ValueError"]
             ELSE BiRelax(g, allowed, st, v, ns, i + 1)
        ELSE IF w \notin DOMAIN st.seen[side] \/ Less(vwLength, st.seen[side][w])
        THEN
          LET s1 == [st EXCEPT
                       !.seen[side] = (w :> vwLength) @@ @,
                       !.fringe[side] = @ \cup {<<vwLength, st.c, w>>},
                       !.c = @ + 1,
                       !.paths[side] = (w :> Append(st.paths[side][v], w)) @@ @]
              both == w \in DOMAIN s1.seen[1] /\ w \in DOMAIN s1.seen[2]
              totaldist == Plus(s1.seen[1][w], s1.seen[2][w])
              s2 == IF both /\ (s1.finalpath = <<>> \/ Less(totaldist, s1.finaldist))
                    THEN [s1 EXCEPT
                            !.finaldist = totaldist,
                            !.finalpath = s1.paths[1][w]
                                          \o Tail(Reverse(s1.paths[2][w]))]
                    ELSE s1
          IN  BiRelax(g, allowed, s2, v, ns, i + 1)
        ELSE BiRelax(g, allowed, st, v, ns, i + 1)

RECURSIVE BiLoop(_, _, _)
\* while fringe[0] and fringe[1]: ...
BiLoop(g, allowed, st) ==
    IF st.fringe[1] = {} \/ st.fringe[2] = {} THEN Raise("NetworkXNoPath")
    ELSE
      LET dir == 1 - st.dir
          side == dir + 1
          top == PopMin(st.fringe[side])
          v == top[3]
          popped == [st EXCEPT !.dir = dir, !.fringe[side] = @ \ {top}]
      IN
      IF v \in DOMAIN st.dists[side] THEN BiLoop(g, allowed, popped)
      ELSE
        LET st1 == [popped EXCEPT !.dists[side] = (v :> top[1]) @@ @] IN
        IF v \in DOMAIN st1.dists[2 - dir]
        THEN [exc |-> "", val |-> st1.finaldist, path |-> st1.finalpath]
        ELSE
          LET ns == IF dir = 0 THEN Successors(g, v) ELSE Predecessors(g, v)
              st2 == BiRelax(g, allowed, st1, v, ns, 1)
          IN  IF st2.exc # "" THEN Raise(st2.exc)
              ELSE BiLoop(g, allowed, st2)

bidirectional_dijkstra(g, source, target, allowed) ==
    IF source \notin DOMAIN g.node \/ target \notin DOMAIN g.node
    THEN Raise("NodeNotFound")
    ELSE IF source = target
    THEN [exc |-> "", val |-> Zero, path |-> <<source>>]
    ELSE BiLoop(g, allowed,
           [dists |-> <<EmptyDict, EmptyDict>>,
            paths |-> <<source :> <<source>>, target :> <<target>> >>,
            fringe |-> << {<<Zero, 0, source>>}, {<<Zero, 1, target>>} >>,
            seen |-> <<source :> Zero, target :> Zero>>,
            c |-> 2, finaldist |-> Zero, finalpath |-> <<>>,
            dir |-> 1, exc |-> ""])

\* mutant: an unknown hub is reported as an unreachable one
shortest_path_NoNodeCheck(g, start, end, allowed) ==
    IF start \notin DOMAIN g.node \/ end \notin DOMAIN g.node
    THEN Raise("NetworkXNoPath")
    ELSE bidirectional_dijkstra(g, start, end, allowed)

\* nx.shortest_path(self.G, start, end, weight=weight_logic)
shortest_path(g, start, end, allowed) ==
    bidirectional_dijkstra(g, start, end, allowed)

-----------------------------------------------------------------------------
(* nx.dijkstra_path_length, which nx.shortest_path_length(G, s, t,         *)
(* weight=f) runs: _dijkstra_multisource from the single source.           *)

RECURSIVE UniRelax(_, _, _, _, _, _)
\* for u, e in G_succ[v].items(): ...
UniRelax(g, allowed, st, v, ns, i) ==
    IF i > Len(ns) THEN st
    ELSE
      LET u == ns[i][1]
          cost == weight_logic(v, u, ns[i][2], allowed)
      IN
      IF cost.exc # "" THEN [st EXCEPT !.exc = cost.exc]
      ELSE
        LET vu_dist == Plus(st.dist[v], cost.val) IN
        IF u \in DOMAIN st.dist
        THEN IF Less(vu_dist, st.dist[u])
             THEN [st EXCEPT !.exc = "ValueError"]
             ELSE UniRelax(g, allowed, st, v, ns, i + 1)
        ELSE IF u \notin DOMAIN st.seen \/ Less(vu_dist, st.seen[u])
        THEN UniRelax(g, allowed,
                 [st EXCEPT !.seen = (u :> vu_dist) @@ @,
                            !.fringe = @ \cup {<<vu_dist, st.c, u>>},
                            !.c = @ + 1],
                 v, ns, i + 1)
        ELSE UniRelax(g, allowed, st, v, ns, i + 1)

RECURSIVE UniLoop(_, _, _, _)
\* while fringe: ...
UniLoop(g, allowed, target, st) ==
    IF st.fringe = {} THEN st
    ELSE
      LET top == PopMin(st.fringe)
          v == top[3]
          popped == [st EXCEPT !.fringe = @ \ {top}]
      IN
      IF v \in DOMAIN st.dist THEN UniLoop(g, allowed, target, popped)
      ELSE
        LET st1 == [popped EXCEPT !.dist = (v :> top[1]) @@ @] IN
        IF v = target THEN st1
        ELSE
          LET st2 == UniRelax(g, allowed, st1, v, Successors(g, v), 1)
          IN  IF st2.exc # "" THEN st2 ELSE UniLoop(g, allowed, target, st2)

dijkstra_path_length(g, source, target, allowed) ==
    IF source \notin DOMAIN g.node THEN Raise("NodeNotFound")
    ELSE IF source = target THEN Ok(Zero)
    ELSE
      LET st == UniLoop(g, allowed, target,
                   [dist |-> EmptyDict, seen |-> source :> Zero,
                    fringe |-> {<<Zero, 0, source>>}, c |-> 1, exc |-> ""])
      IN  IF st.exc # "" THEN Raise(st.exc)
          ELSE IF target \in DOMAIN st.dist THEN Ok(st.dist[target])
          ELSE Raise("NetworkXNoPath")

\* nx.shortest_path_length(self.G, start, end, weight=weight_logic)
shortest_path_length(g, start, end, allowed) ==
    dijkstra_path_length(g, start, end, allowed)

-----------------------------------------------------------------------------
(* solve_path *)

\* list(self.G.get_edge_data(u, v).values())[0]: the first edge added
\* between u and v
FirstEdgeData(g, u, v) ==
    g.edge[CHOOSE i \in DOMAIN g.edge :
             /\ g.edge[i].u = u /\ g.edge[i].v = v
             /\ \A j \in DOMAIN g.edge :
                  (g.edge[j].u = u /\ g.edge[j].v = v) => i <= j].data

\* the segments the trace loop prints: those whose status is not Clear
Trace(g, path) ==
    LET hops == [i \in 1..(Len(path) - 1) |->
                   <<path[i], path[i + 1],
                     FirstEdgeData(g, path[i], path[i + 1]).status>>]
    IN  SelectSeq(hops, LAMBDA h : h[3] # "Clear")

\* what one call of solve_path does: "returned" with the path, "no_route"
\* (NetworkXNoPath caught, message printed, None returned), or the name of
\* the exception that leaves solve_path
solve_path(g, start, end, vehicle_type) ==
    LET allowed == Allowed(vehicle_type)
        none == [outcome |-> "", path |-> <<>>, total_score |-> Zero,
                 trace |-> <<>>]
        p == shortest_path(g, start, end, allowed)
        l == shortest_path_length(g, start, end, allowed)
    IN  IF p.exc = "NetworkXNoPath" THEN [none EXCEPT !.outcome = "no_route"]
        ELSE IF p.exc # "" THEN [none EXCEPT !.outcome = p.exc]
        ELSE IF l.exc = "NetworkXNoPath" THEN [none EXCEPT !.outcome = "no_route"]
        ELSE IF l.exc # "" THEN [none EXCEPT !.outcome = l.exc]
        ELSE [outcome |-> "returned", path |-> p.path, total_score |-> l.val,
              trace |-> Trace(g, p.path)]

-----------------------------------------------------------------------------
(* The inputs explored: river levels just below, at and above the danger   *)
(* level, air quality at and above its threshold, a rough road, an         *)
(* ordinary and an extreme crowd reading, the mela flag; solve requests    *)
(* between hubs with and without outgoing connections and an unknown hub.  *)

RiverLevels == {CWC_DANGER_LEVEL - 1, CWC_DANGER_LEVEL, MaxRiver}
AqiValues == {AQI_THRESHOLD, MaxAqi}
RoadDicts == {EmptyDict, "LBS_Airport-Cantt_Station" :> MaxIri}
CrowdDicts ==
    {EmptyDict, "Dashashwamedh_Ghat" :> MaxDensity, "Lanka_Stand" :> ExtremeDensity}
Hubs == {"Cantt_Station", "Lanka_Stand", "SSPG_Kabir_Chaura", "BHU_Trauma_Centre",
         "NoSuchHub"}
VehicleTypes == {"E-Bus", "E-Rickshaw", "Ambulance"}

-----------------------------------------------------------------------------
(* The state machine.  G is the engine's graph; signals holds the          *)
(* arguments of the most recent update (empty before the first); called    *)
(* records the most recent call and what it did.                           *)

NoCall ==
    [op |-> "__init__", start |-> "", end |-> "", vehicle_type |-> "",
     outcome |-> "", path |-> <<>>, total_score |-> Zero, trace |-> <<>>,
     repeated |-> FALSE, changed |-> FALSE]

Init ==
    /\ G = initialize_city_network
    /\ signals = <<>>
    /\ called = NoCall

update_governance_parameters(river_level, aqi, road_states, crowd_data, mela_active) ==
    LET sig == [river_level |-> river_level, aqi |-> aqi,
                road_states |-> road_states, crowd_data |-> crowd_data,
                mela_active |-> mela_active]
        after == UpdatedGraph(G, sig)
    IN  /\ G' = after
        /\ signals' = <<sig>>
        /\ called' = [NoCall EXCEPT !.op = "update_governance_parameters",
                                    !.outcome = "returned",
                                    !.repeated = (signals = <<sig>>),
                                    !.changed = (after # G)]

SolvePath(start, end, vehicle_type) ==
    LET r == solve_path(G, start, end, vehicle_type)
    IN  /\ UNCHANGED <<G, signals>>
        /\ called' = [NoCall EXCEPT !.op = "solve_path", !.start = start,
                                    !.end = end, !.vehicle_type = vehicle_type,
                                    !.outcome = r.outcome, !.path = r.path,
                                    !.total_score = r.total_score,
                                    !.trace = r.trace,
                                    !.changed = (G' # G)]

Update ==
    \E river_level \in RiverLevels, aqi \in AqiValues, road_states \in RoadDicts,
       crowd_data \in CrowdDicts, mela_active \in BOOLEAN :
        update_governance_parameters(river_level, aqi, road_states, crowd_data,
                                     mela_active)

Solve ==
    \E start \in Hubs, end \in Hubs, vehicle_type \in VehicleTypes :
        SolvePath(start, end, vehicle_type)

Next == Update \/ Solve

Spec == Init /\ [][Next]_vars

-----------------------------------------------------------------------------
(* Reference notions the properties are stated with (not the engine's      *)
(* code): connections, paths as chains of connections, their costs.        *)

Topology == initialize_city_network

RECURSIVE Chains(_)
\* every chain of at most n connections that follow one another (as edge
\* indices)
Chains(n) ==
    IF n = 1 THEN {<<i>> : i \in DOMAIN Topology.edge}
    ELSE LET prev == Chains(n - 1)
         IN  prev \cup
             {Append(x[1], x[2]) :
                x \in {y \in prev \X DOMAIN Topology.edge :
                         /\ Len(y[1]) = n - 1
                         /\ Topology.edge[y[1][n - 1]].v = Topology.edge[y[2]].u}}

\* the hubs a chain of connections visits
ChainHubs(c) ==
    <<Topology.edge[c[1]].u>> \o [k \in DOMAIN c |-> Topology.edge[c[k]].v]

\* the paths of the graph with at least one hop: chains that visit no hub
\* twice
AllPaths ==
    {c \in Chains(Len(edges)) :
        \A a, b \in DOMAIN ChainHubs(c) :
            ChainHubs(c)[a] = ChainHubs(c)[b] => a = b}

PathsBetween(s, t) ==
    {c \in AllPaths : Topology.edge[c[1]].u = s /\ Topology.edge[c[Len(c)]].v = t}

Reachable(s, t) == s = t \/ PathsBetween(s, t) # {}

\* the allowed set of a vehicle type: itself, plus E-Bus for an Ambulance
AllowedModes(vehicle_type) ==
    {vehicle_type} \cup (IF vehicle_type = "Ambulance" THEN {"E-Bus"} ELSE {})

\* a connection's effective cost: its current weight when its mode is
\* allowed, otherwise the sentinel
EffectiveCost(i, vehicle_type) ==
    IF G.edge[i].data.mode \in AllowedModes(vehicle_type)
    THEN [big |-> 0, fine |-> G.edge[i].data.weight]
    ELSE SENTINEL

RECURSIVE ChainCost(_, _)
ChainCost(c, vehicle_type) ==
    IF c = <<>> THEN Zero
    ELSE Plus(EffectiveCost(Head(c), vehicle_type), ChainCost(Tail(c), vehicle_type))

RECURSIVE ChainWeight(_)
\* the total stored weight of a chain
ChainWeight(c) ==
    IF c = <<>> THEN 0 ELSE G.edge[Head(c)].data.weight + ChainWeight(Tail(c))

Least(S) == CHOOSE x \in S : \A y \in S : ~Less(y, x)

\* the least cumulative effective cost from s to t (t reachable from s)
MinCost(s, t, vehicle_type) ==
    IF s = t THEN Zero
    ELSE Least({ChainCost(c, vehicle_type) : c \in PathsBetween(s, t)})

\* the connections between two hubs
Connections(u, v) ==
    {i \in DOMAIN G.edge : G.edge[i].u = u /\ G.edge[i].v = v}

RECURSIVE HubPathCost(_, _)
\* the cumulative effective cost of a sequence of hubs, each hop taken over
\* its cheapest connection
HubPathCost(path, vehicle_type) ==
    IF Len(path) < 2 THEN Zero
    ELSE Plus(Least({EffectiveCost(i, vehicle_type) :
                       i \in Connections(path[1], path[2])}),
              HubPathCost(Tail(path), vehicle_type))

FollowsConnections(path) ==
    \A k \in 1..(Len(path) - 1) : Connections(path[k], path[k + 1]) # {}

\* the connection touches a hub whose name contains "Ghat"
TouchesGhat(i) == HasGhat[G.edge[i].u] \/ HasGhat[G.edge[i].v]

Solved == called.op = "solve_path"
Updated == called.op = "update_governance_parameters"
Latest == signals[1]

\* the signals of the end-to-end scenario
ScenarioSignals ==
    [river_level |-> MaxRiver, aqi |-> MaxAqi,
     road_states |-> "LBS_Airport-Cantt_Station" :> MaxIri,
     crowd_data |-> "Dashashwamedh_Ghat" :> MaxDensity,
     mela_active |-> TRUE]

-----------------------------------------------------------------------------
(* Properties *)

\* C1: whenever solve_path is called with hubs start and end of the graph,
\* end reachable from start, it returns a sequence of hubs that begins at
\* start, ends at end, follows existing connections hop by hop and has the
\* least cumulative effective cost of all start-to-end paths, and the total
\* score it reports is that cumulative effective cost.
C1_ReturnsCheapestPath ==
    (/\ Solved
     /\ called.start \in DOMAIN G.node /\ called.end \in DOMAIN G.node
     /\ Reachable(called.start, called.end))
    => /\ called.outcome = "returned"
       /\ Len(called.path) >= 1
       /\ called.path[1] = called.start
       /\ called.path[Len(called.path)] = called.end
       /\ FollowsConnections(called.path)
       /\ HubPathCost(called.path, called.vehicle_type)
            = MinCost(called.start, called.end, called.vehicle_type)
       /\ called.total_score = HubPathCost(called.path, called.vehicle_type)

NeedsEBus(s, t) ==
    /\ s # t
    /\ PathsBetween(s, t) # {}
    /\ \A c \in PathsBetween(s, t) :
          \E k \in DOMAIN c : G.edge[c[k]].data.mode = "E-Bus"

\* C3: when every route from start to end crosses an E-Bus connection,
\* solve_path for an Ambulance returns a path, and solve_path for an
\* E-Rickshaw ends with the no-route outcome and no path.
C3_AmbulancePrivilege ==
    (Solved /\ NeedsEBus(called.start, called.end))
    => /\ called.vehicle_type = "Ambulance"
            => (called.outcome = "returned" /\ called.path # <<>>)
       /\ called.vehicle_type = "E-Rickshaw"
            => (called.outcome = "no_route" /\ called.path = <<>>)

\* the weight and status a connection has by its creation values and the
\* signals of the latest update
Derived(i) ==
    IF signals = <<>> THEN add_edge(i) ELSE UpdateEdge(add_edge(i), Latest)

\* C4: after any sequence of update and solve calls every connection is the
\* one determined by its creation values (endpoints, mode, base_time) and
\* the signals of the latest update (base_time and Clear before the first);
\* an update that repeats the previous signals changes nothing, and
\* solve_path changes nothing.
C4_DerivedFromLatestSignals ==
    /\ DOMAIN G.edge = DOMAIN Topology.edge
    /\ G.node = Topology.node
    /\ \A i \in DOMAIN G.edge : G.edge[i] = Derived(i)
    /\ (Updated /\ called.repeated) => ~called.changed
    /\ Solved => ~called.changed

\* C4 witness: an update has just repeated the previous signals, on a graph
\* in which some connection is penalised.
C4_Witness ==
    /\ Updated /\ called.repeated
    /\ \E i \in DOMAIN G.edge : G.edge[i].data.weight # G.edge[i].data.base_time

\* C5: after an update with the river at or above the danger level, every
\* connection touching a "Ghat" hub weighs more than every path that uses no
\* such connection.
C5_BlockadeDominance ==
    (signals # <<>> /\ Latest.river_level >= CWC_DANGER_LEVEL)
    => \A i \in DOMAIN G.edge : TouchesGhat(i) =>
          \A c \in AllPaths :
              (\A k \in DOMAIN c : ~TouchesGhat(c[k]))
              => G.edge[i].data.weight > ChainWeight(c)

\* C6: after an update with the river at or above the danger level, every
\* connection touching a "Ghat" hub has status BLOCKADE_FLOOD_ALERT.
C6_FloodStatusWins ==
    (signals # <<>> /\ Latest.river_level >= CWC_DANGER_LEVEL)
    => \A i \in DOMAIN G.edge :
          TouchesGhat(i) => G.edge[i].data.status = "BLOCKADE_FLOOD_ALERT"

\* the penalty rules applied in the order road, crowd, air quality, flood,
\* event
OrderedCost(e, sig) ==
    LET l0 == [cost |-> e.data.base_time, segment_status |-> "Clear"]
        l1 == RoadRule(l0, e, sig)
        l2 == CrowdRule(l1, e, sig)
        l3 == AqiRule(l2, e, sig)
        l4 == FloodRule(l3, e, sig)
        l5 == MelaRule(l4, e, sig)
    IN  l5.cost

\* C7: the weight an update stores is base_time with the rules applied in
\* the order road quality, crowd, air quality, flood gate, event zone, so
\* the flood constant is never multiplied.
C7_RuleOrder ==
    signals # <<>>
    => \A i \in DOMAIN G.edge : G.edge[i].data.weight = OrderedCost(G.edge[i], Latest)

\* C8: after the scenario's update, solve_path from SSPG_Kabir_Chaura to
\* BHU_Trauma_Centre for an Ambulance returns the path over Cantt_Station
\* with total cost 10 + 22 = 32, both connections carrying their base time.
C8_ScenarioB ==
    (/\ signals = <<ScenarioSignals>>
     /\ Solved
     /\ called.start = "SSPG_Kabir_Chaura" /\ called.end = "BHU_Trauma_Centre"
     /\ called.vehicle_type = "Ambulance")
    => /\ called.outcome = "returned"
       /\ called.path = <<"SSPG_Kabir_Chaura", "Cantt_Station", "BHU_Trauma_Centre">>
       /\ called.total_score = [big |-> 0, fine |-> (10 + 22) * Unit]
       /\ \A i \in Connections("SSPG_Kabir_Chaura", "Cantt_Station")
                   \cup Connections("Cantt_Station", "BHU_Trauma_Centre") :
             G.edge[i].data.weight = G.edge[i].data.base_time

\* C9: solve_path with a start or end that is no hub of the graph ends with
\* the unknown-hub error, which is neither a returned path nor the no-route
\* outcome, returns no path and leaves the graph as it was.
C9_UnknownHub ==
    (Solved /\ (called.start \notin DOMAIN G.node \/ called.end \notin DOMAIN G.node))
    => /\ called.outcome = "NodeNotFound"
       /\ called.outcome \notin {"returned", "no_route"}
       /\ called.path = <<>>
       /\ ~called.changed
       /\ G.node = Topology.node
       /\ DOMAIN G.edge = DOMAIN Topology.edge

\* C9 witness: solve_path("NoSuchHub", "Lanka_Stand", "E-Rickshaw") has run
\* on a graph with penalised connections.
C9_Witness ==
    /\ Solved
    /\ called.start = "NoSuchHub" /\ called.end = "Lanka_Stand"
    /\ called.vehicle_type = "E-Rickshaw"
    /\ called.outcome = "NodeNotFound"
    /\ \E i \in DOMAIN G.edge : G.edge[i].data.status # "Clear"

\* C10: every connection has weight >= base_time > 0, and its weight equals
\* its base_time exactly when its status is Clear.
C10_WeightAtLeastBase ==
    \A i \in DOMAIN G.edge :
        /\ G.edge[i].data.base_time > 0
        /\ G.edge[i].data.weight >= G.edge[i].data.base_time
        /\ (G.edge[i].data.weight = G.edge[i].data.base_time)
             <=> (G.edge[i].data.status = "Clear")

\* C10 witness: after an update some connection is penalised and another is
\* still Clear.
C10_Witness ==
    /\ Updated
    /\ \E i \in DOMAIN G.edge :
          G.edge[i].data.weight > G.edge[i].data.base_time
    /\ \E i \in DOMAIN G.edge : G.edge[i].data.status = "Clear"

====
